---- MODULE Spec2Model ----
(***************************************************************************)
(* Journal of Discourses extraction: the line pipeline of                  *)
(* pdf-sources/clean_extract_jod.py.                                       *)
(*                                                                         *)
(* A text is a sequence of one-character strings, so that the string       *)
(* tests of the program (strip, isupper, substring search, the regular     *)
(* expressions) are computed on the characters.  Indices into the line     *)
(* stream are the program's 0-based indices; At(ls, n) reads line n.       *)
(***************************************************************************)
EXTENDS Integers, Sequences, FiniteSets, TLC

VARIABLES
  pages,              \* main: the pages, each the sequence of its raw lines
  pno,                \* main: the number of pages cleaned so far
  lines,              \* the line stream (all_lines in main, lines in the functions)
  pc,                 \* position in the program
  fixed,              \* fix_hyphenation: the output so far
  fi,                 \* fix_hyphenation: the cursor i
  i,                  \* find_discourse_boundaries: the outer cursor
  j,                  \* the forward cursor
  lookback,           \* the backward cursor
  start_idx,          \* start of the block being collected
  title_lines,        \* title lines of the block being collected
  last_boundary_end,  \* title_end of the last boundary emitted, -1 at first
  boundaries,         \* the boundaries emitted so far
  discourses,         \* find_all_discourses: the records built so far
  current,            \* join_paragraphs: the accumulator
  paragraphs,         \* join_paragraphs: the paragraphs finished so far
  pidx,               \* join_paragraphs: the cursor of the loop over the lines
  content,            \* join_paragraphs: the text returned
  speaker_text,       \* the text given to extract_speaker_name
  speaker             \* the speaker name in work

vars == <<pages, pno, lines, pc, fixed, fi, i, j, lookback, start_idx, title_lines,
          last_boundary_end, boundaries, discourses, current, paragraphs, pidx,
          content, speaker_text, speaker>>

-----------------------------------------------------------------------------
(* Characters and the str methods the program uses.                        *)

Upper == {"A","B","C","D","E","F","G","H","I","J","K","L","M",
          "N","O","P","Q","R","S","T","U","V","W","X","Y","Z"}
Lower == {"a","b","c","d","e","f","g","h","i","j","k","l","m",
          "n","o","p","q","r","s","t","u","v","w","x","y","z"}
Digit == {"0","1","2","3","4","5","6","7","8","9"}
Space == {" "}
WordChar == Upper \cup Lower \cup Digit \cup {"_"}

At(ls, n) == ls[n + 1]

\* F(v), with v evaluated once and F applied to its value; the bodies below bind
\* their locals with it where a local is read many times
Let(v, F(_)) == CHOOSE r \in {F(x) : x \in {v}} : TRUE

Min(a, b) == IF a < b THEN a ELSE b
Max(a, b) == IF a > b THEN a ELSE b

RECURSIVE lstrip(_)
lstrip(s) == IF s # <<>> /\ Head(s) \in Space THEN lstrip(Tail(s)) ELSE s

RECURSIVE rstrip(_)
rstrip(s) ==
  IF s # <<>> /\ s[Len(s)] \in Space THEN rstrip(SubSeq(s, 1, Len(s) - 1)) ELSE s

strip(s) == rstrip(lstrip(s))

RECURSIVE rstrip_chars(_, _)
rstrip_chars(s, cs) ==
  IF s # <<>> /\ s[Len(s)] \in cs THEN rstrip_chars(SubSeq(s, 1, Len(s) - 1), cs) ELSE s

RECURSIVE strip_chars(_, _)
strip_chars(s, cs) ==
  IF s # <<>> /\ Head(s) \in cs THEN strip_chars(Tail(s), cs) ELSE rstrip_chars(s, cs)

\* str.isupper(): no lowercase letter and at least one uppercase letter
isupper(s) ==
  /\ ~(\A n \in 1..Len(s) : s[n] \notin Upper)
  /\ \A n \in 1..Len(s) : s[n] \notin Lower

isdigit(s) == s # <<>> /\ \A n \in 1..Len(s) : s[n] \in Digit

HasAt(s, p, lit) ==
  /\ p >= 1
  /\ p + Len(lit) - 1 <= Len(s)
  /\ \A n \in 1..Len(lit) : s[p + n - 1] = lit[n]

\* lit in s
Contains(s, lit) == ~(\A p \in 1..(Len(s) - Len(lit) + 1) : ~HasAt(s, p, lit))

startswith(s, lit) == HasAt(s, 1, lit)
endswith(s, lit) == HasAt(s, Len(s) - Len(lit) + 1, lit)

\* the first position of lit in s at or after p, 0 when there is none
Find(s, lit, p) ==
  LET hits == {q \in p..(Len(s) - Len(lit) + 1) : HasAt(s, q, lit)}
  IN IF hits = {} THEN 0 ELSE CHOOSE q \in hits : \A r \in hits : q <= r

\* s.replace(old, new): every non-overlapping occurrence, left to right
RECURSIVE replace(_, _, _)
replace(s, old, new) ==
  LET p == Find(s, old, 1)
  IN IF p = 0 THEN s
     ELSE SubSeq(s, 1, p - 1) \o new \o replace(SubSeq(s, p + Len(old), Len(s)), old, new)

\* sep.join(parts)
RECURSIVE join(_, _)
join(sep, parts) ==
  IF parts = <<>> THEN <<>>
  ELSE IF Len(parts) = 1 THEN parts[1]
  ELSE parts[1] \o sep \o join(sep, Tail(parts))

-----------------------------------------------------------------------------
(* Regular expressions.  A pattern is a sequence of elements:              *)
(*   [t |-> "lit", v |-> text]          the text                           *)
(*   [t |-> "alt", v |-> set of texts]  one of the texts (<<>> for '?')    *)
(*   [t |-> "rep", v |-> set of characters, lo |-> n, hi |-> m]  {n,m}     *)
(*                                      ({n,} when m is -1)                *)
(*   [t |-> "wb"]                       \b                                 *)
(*   [t |-> "lb", v |-> set of characters]  (?<=c), the character before   *)
(*   [t |-> "end"]                      $                                  *)
(* Ends(s, p, re, k) is the set of the positions q at which elements k..   *)
(* of re, started at position p, can stop: s[p..q-1] is what they match.   *)

Lit(v) == [t |-> "lit", v |-> v]
Alt(v) == [t |-> "alt", v |-> v]
Rep(v, lo, hi) == [t |-> "rep", v |-> v, lo |-> lo, hi |-> hi]
\* {lo,}: hi is -1 for no upper limit
Many(v, lo) == [t |-> "rep", v |-> v, lo |-> lo, hi |-> -1]
WB == [t |-> "wb"]
LB(v) == [t |-> "lb", v |-> v]
End == [t |-> "end"]
Ws1 == Many(Space, 1)
Ws0 == Many(Space, 0)

IsWordAt(s, p) == p >= 1 /\ p <= Len(s) /\ s[p] \in WordChar

RECURSIVE Ends(_, _, _, _)
Ends(s, p, re, k) ==
  IF k > Len(re) THEN {p}
  ELSE LET e == re[k] IN
    CASE e.t = "lit" ->
           IF HasAt(s, p, e.v) THEN Ends(s, p + Len(e.v), re, k + 1) ELSE {}
      [] e.t = "alt" ->
           UNION {IF HasAt(s, p, a) THEN Ends(s, p + Len(a), re, k + 1) ELSE {} : a \in e.v}
      [] e.t = "rep" ->
           UNION {Ends(s, q, re, k + 1) :
                    q \in {r \in (p + e.lo)..(IF e.hi < 0 THEN Len(s) + 1
                                                 ELSE Min(p + e.hi, Len(s) + 1)) :
                             \A x \in p..(r - 1) : s[x] \in e.v}}
      [] e.t = "wb" ->
           IF IsWordAt(s, p - 1) # IsWordAt(s, p) THEN Ends(s, p, re, k + 1) ELSE {}
      [] e.t = "lb" ->
           IF p > 1 /\ p - 1 <= Len(s) /\ s[p - 1] \in e.v THEN Ends(s, p, re, k + 1) ELSE {}
      [] e.t = "end" ->
           IF p = Len(s) + 1 THEN Ends(s, p, re, k + 1) ELSE {}

\* re.match(re, s)
re_match(re, s) == Ends(s, 1, re, 1) # {}

\* re.search(re, s)
re_search(re, s) == ~(\A p \in 1..(Len(s) + 1) : Ends(s, p, re, 1) = {})

SetMax(S) == CHOOSE x \in S : \A y \in S : x >= y
SetMin(S) == CHOOSE x \in S : \A y \in S : x <= y

\* re.sub(re, repl, s) for a pattern without groups, from position p on
RECURSIVE re_sub_from(_, _, _, _)
re_sub_from(re, repl, s, p) ==
  Let({m \in p..Len(s) : Ends(s, m, re, 1) \ {m} # {}}, LAMBDA ms :
    IF ms = {} THEN SubSeq(s, p, Len(s))
    ELSE Let(SetMin(ms), LAMBDA m :
         Let(SetMax(Ends(s, m, re, 1)), LAMBDA q :
           SubSeq(s, p, m - 1) \o repl \o re_sub_from(re, repl, s, q))))

re_sub(re, repl, s) == re_sub_from(re, repl, s, 1)

\* the start of the leftmost match, 0 when there is none
MatchStart(re, s) ==
  LET hits == {p \in 1..(Len(s) + 1) : Ends(s, p, re, 1) # {}}
  IN IF hits = {} THEN 0 ELSE CHOOSE p \in hits : \A r \in hits : p <= r

-----------------------------------------------------------------------------
(* Line tests.                                                             *)

AMEN == <<"A","M","E","N">>
REPORTED_BY == <<"R","E","P","O","R","T","E","D"," ","B","Y">>
BEFORE_THE_HON == <<"B","E","F","O","R","E"," ","T","H","E"," ","H","O","N",".">>
JUDGE == <<"J","U","D","G","E">>
DELIVERED == <<"D","E","L","I","V","E","R","E","D">>
BEFORE == <<"B","E","F","O","R","E">>
JOURNAL_OF_DISCOURSES == <<"J","O","U","R","N","A","L"," ","O","F"," ","D","I","S","C","O","U","R","S","E","S",".">>

Honorifics == { <<"P","R","E","S","I","D","E","N","T">>, <<"E","L","D","E","R">>, <<"H","O","N",".">>, <<"E","S","Q",".">>, <<"M","R",".">>, <<"P","R","O","F","E","S","S","O","R">> }

\* r'\.\s+\d{2,3}$'
running_header_re == <<Lit(<<".">>), Ws1, Rep(Digit, 2, 3), End>>

is_running_header(line) == re_search(running_header_re, line)

\* line in ["", "AMEN", "AMEN."]
is_blank_or_amen(line) == line \in {<<>>, AMEN, <<"A","M","E","N",".">>}

speaker_patterns == <<
  <<WB, Lit(<<"B","Y">>), Ws1, Alt(Honorifics)>>,
  <<WB, Lit(<<"P","R","E","S","I","D","E","N","T">>), Ws1, Rep(Upper, 1, 1)>>,
  <<WB, Lit(<<"E","L","D","E","R">>), Ws1, Rep(Upper, 1, 1)>>,
  <<WB, Lit(<<"H","O","N",".">>), Ws1, Rep(Upper, 1, 1)>>,
  <<WB, Lit(<<"E","S","Q",".">>), Ws0, Lit(<<",">>)>>,
  <<WB, Lit(<<"D","E","L","I","V","E","R","E","D">>), Ws1, Lit(<<"B","Y">>)>>,
  <<WB, Lit(<<"B","E","F","O","R","E">>), Ws1, Lit(<<"T","H","E">>), Ws1, Lit(<<"H","O","N",".">>)>> >>

has_speaker_indicator(line) ==
  \E n \in 1..Len(speaker_patterns) : re_search(speaker_patterns[n], line)

location_patterns == <<
  <<WB, Lit(<<"D","E","L","I","V","E","R","E","D">>), Ws1, Alt({ <<"I","N">>, <<"A","T">> })>>,
  <<WB, Lit(<<"G","R","E","A","T">>), Ws1, Lit(<<"S","A","L","T">>), Ws1, Lit(<<"L","A","K","E">>)>>,
  <<WB, Lit(<<"T","A","B","E","R","N","A","C","L","E">>)>> >>

has_location_indicator(line) ==
  \E n \in 1..Len(location_patterns) : re_search(location_patterns[n], line)

\* r'([A-Z]+\s+\d{1,2}(?:TH|ST|ND|RD)?,\s+\d{4})'
date_re == <<Many(Upper, 1), Ws1, Rep(Digit, 1, 2),
             Alt({ <<"T","H">>, <<"S","T">>, <<"N","D">>, <<"R","D">>, <<>> }), Lit(<<",">>), Ws1, Rep(Digit, 4, 4)>>

\* group(1) of the leftmost match of date_re, <<>> when there is none
date_match(text) ==
  LET p == MatchStart(date_re, text)
  IN IF p = 0 THEN <<>>
     ELSE LET qs == Ends(text, p, date_re, 1)
              q == CHOOSE x \in qs : \A y \in qs : x >= y
          IN SubSeq(text, p, q - 1)

\* 'REPORTED BY' in line, or 'BEFORE THE HON.' in line and 'JUDGE' in line
is_verification(line) ==
  \/ Contains(line, REPORTED_BY)
  \/ Contains(line, BEFORE_THE_HON) /\ Contains(line, JUDGE)

-----------------------------------------------------------------------------
(* is_page_header_footer, clean_page_text                                  *)

numbered_journal_re ==
  <<Many(Digit, 1), Ws1, Lit(JOURNAL_OF_DISCOURSES), End>>

title_and_page_re ==
  <<Many(Upper \cup Space \cup {"-", "'", ","}, 1), Lit(<<".">>), Ws1,
    Many(Digit, 1), Ws0, End>>

is_page_header_footer(raw) ==
  LET line == strip(raw) IN
    \/ line = <<>>
    \/ isdigit(line)
    \/ re_match(numbered_journal_re, line)
    \/ line = JOURNAL_OF_DISCOURSES
    \/ re_match(title_and_page_re, line)

RECURSIVE clean_page_text(_)
clean_page_text(page_lines) ==
  IF page_lines = <<>> THEN <<>>
  ELSE LET line == strip(Head(page_lines))
           rest == clean_page_text(Tail(page_lines))
       IN IF is_page_header_footer(line) THEN rest ELSE <<line>> \o rest

-----------------------------------------------------------------------------
(* fix_hyphenation: one iteration of the loop at cursor n, and the loop.   *)

\* r'(\w+)-\s*$'
hyphen_re == <<Many(WordChar, 1), Lit(<<"-">>), Ws0, End>>

\* lines[i + 1].strip()
hyph_next_line(ls, n) == strip(At(ls, n + 1))

\* mutant of hyph_merges: the first character of the next line is not looked at
hyph_merges_any_case(ls, n) ==
  /\ n + 1 < Len(ls)
  /\ re_search(hyphen_re, At(ls, n))
  /\ hyph_next_line(ls, n) # <<>>

\* the conditions of lines 63-67: a next line, the match, a lowercase first character
hyph_merges(ls, n) ==
  /\ n + 1 < Len(ls)
  /\ re_search(hyphen_re, At(ls, n))
  /\ hyph_next_line(ls, n) # <<>>
  /\ hyph_next_line(ls, n)[1] \in Lower

\* line[:match.start()] + match.group(1) + next_line
hyph_merged(ls, n) ==
  LET line == At(ls, n)
      p == MatchStart(hyphen_re, line)
      gs == {r \in (p + 1)..(Len(line) + 1) :
               /\ \A x \in p..(r - 1) : line[x] \in WordChar
               /\ Ends(line, r, <<Lit(<<"-">>), Ws0, End>>, 1) # {}}
      g == CHOOSE r \in gs : \A y \in gs : r >= y
  IN SubSeq(line, 1, p - 1) \o SubSeq(line, p, g - 1) \o hyph_next_line(ls, n)

RECURSIVE fix_hyphenation_loop(_, _, _)
fix_hyphenation_loop(ls, n, out) ==
  IF n >= Len(ls) THEN out
  ELSE IF hyph_merges(ls, n)
       THEN fix_hyphenation_loop(ls, n + 2, Append(out, hyph_merged(ls, n)))
       ELSE fix_hyphenation_loop(ls, n + 1, Append(out, At(ls, n)))

fix_hyphenation(ls) == fix_hyphenation_loop(ls, 0, <<>>)

-----------------------------------------------------------------------------
(* extract_speaker_name.  A capture pattern is                             *)
(*   pre (group: gpre [A-Z\s\.]+?) (?:term | term | ...)                   *)
(* and the match is the one backtracking finds first: the leftmost start,  *)
(* the greedy \s+ of pre and of gpre as long as they can be, the lazy      *)
(* class as short as it can be.                                            *)

NameClass == Upper \cup Space \cup {"."}

TitleWords4 == { <<"P","R","E","S","I","D","E","N","T">>, <<"E","L","D","E","R">>, <<"H","O","N",".">>, <<"E","S","Q",".">> }

terms_with_on == { <<Lit(<<",">>)>>, <<Ws1, Lit(DELIVERED)>>, <<Ws1, Lit(BEFORE)>>,
                   <<Ws1, Lit(<<"O","N">>)>> }
terms_plain == { <<Lit(<<",">>)>>, <<Ws1, Lit(DELIVERED)>>, <<Ws1, Lit(BEFORE)>> }

capture_patterns == <<
  [pre |-> <<Lit(<<"B","Y">>), Ws1>>, gpre |-> <<Alt(Honorifics), Ws1>>, terms |-> terms_with_on],
  [pre |-> <<>>, gpre |-> <<Alt(TitleWords4), Ws1>>, terms |-> terms_plain],
  [pre |-> <<Lit(<<"B","Y">>), Ws1>>, gpre |-> <<>>, terms |-> terms_plain] >>

TermAt(s, e, terms) == \E t \in terms : Ends(s, e, t, 1) # {}

\* the ends e of the lazy class started at c: at least one character, all of the class,
\* and a terminator at e
LazyEnds(s, c, terms) ==
  {e \in (c + 1)..(Len(s) + 1) :
     /\ \A x \in c..(e - 1) : s[x] \in NameClass
     /\ TermAt(s, e, terms)}

\* the positions at which the class can start, for a group started at g
ClassStarts(s, g, pat) == {c \in Ends(s, g, pat.gpre, 1) : LazyEnds(s, c, pat.terms) # {}}

\* the positions at which the group can start, for a match started at p
GroupStarts(s, p, pat) == {g \in Ends(s, p, pat.pre, 1) : ClassStarts(s, g, pat) # {}}

capture_matches(s, pat) == \E p \in 1..(Len(s) + 1) : GroupStarts(s, p, pat) # {}

\* match.group(1)
capture_group(s, pat) ==
  Let(SetMin({x \in 1..(Len(s) + 1) : GroupStarts(s, x, pat) # {}}), LAMBDA p :
  Let(SetMax(GroupStarts(s, p, pat)), LAMBDA g :
  Let(SetMax(ClassStarts(s, g, pat)), LAMBDA c :
  Let(SetMin(LazyEnds(s, c, pat.terms)), LAMBDA e : SubSeq(s, g, e - 1)))))

RECURSIVE extract_speaker_from(_, _)
extract_speaker_from(text, n) ==
  IF n > Len(capture_patterns) THEN <<>>
  ELSE IF capture_matches(text, capture_patterns[n])
       THEN rstrip_chars(strip(capture_group(text, capture_patterns[n])), {",", "."})
       ELSE extract_speaker_from(text, n + 1)

extract_speaker_name(text) == extract_speaker_from(text, 1)

-----------------------------------------------------------------------------
(* normalize_speaker_name, rule by rule in the order of the code.          *)

\* re.sub(head ([A-Z])\s+([A-Z]{2,}), the groups without the \s+ between them, s):
\* head is (?<=\s) for the first repair and (?<=\.)(\s*) for the second
RECURSIVE spacing_sub_from(_, _, _)
spacing_sub_from(head, s, p) ==
  LET tail(w) == Ends(s, w, <<Many(Upper, 2)>>, 1)
      ws(c) == {w \in Ends(s, c, <<Rep(Upper, 1, 1), Ws1>>, 1) : tail(w) # {}}
      cs(m) == {c \in Ends(s, m, head, 1) : ws(c) # {}}
  IN Let({m \in p..Len(s) : cs(m) # {}}, LAMBDA ms :
       IF ms = {} THEN SubSeq(s, p, Len(s))
       ELSE Let(SetMin(ms), LAMBDA m :
            Let(SetMax(cs(m)), LAMBDA c :
            Let(SetMax(ws(c)), LAMBDA w :
            Let(SetMax(tail(w)), LAMBDA q :
              SubSeq(s, p, c) \o SubSeq(s, w, q - 1)
                \o spacing_sub_from(head, s, q))))))

\* lines 320-321
spacing_repair(s) ==
  Let(spacing_sub_from(<<LB(Space)>>, s, 1), LAMBDA s1 :
      spacing_sub_from(<<LB({"."}), Ws0>>, s1, 1))

B_YOUNG_re == <<WB, Lit(<<"B",".">>), Ws0, Lit(<<"Y","O","U","N","G">>), WB>>
H_C_KIMBALL_re == <<Lit(<<"H",".">>), Ws0, Lit(<<"C",".">>), Ws0, Lit(<<"K","I","M","B","A","L","L">>)>>
P_P_PRATT_re == <<WB, Lit(<<"P",".">>), Ws0, Lit(<<"P",".">>), Ws0, Lit(<<"P","R","A","T","T">>), WB>>

\* lines 324-327
alias_table(s) ==
  Let(re_sub(B_YOUNG_re, <<"B","R","I","G","H","A","M"," ","Y","O","U","N","G">>, s), LAMBDA s1 :
  Let(re_sub(H_C_KIMBALL_re, <<"H","E","B","E","R"," ","C","."," ","K","I","M","B","A","L","L">>, s1), LAMBDA s2 :
  Let(replace(s2, <<"H","."," ","C","."," ","K","I","M","B","A","L","L">>, <<"H","E","B","E","R"," ","C","."," ","K","I","M","B","A","L","L">>), LAMBDA s3 :
    re_sub(P_P_PRATT_re, <<"P","A","R","L","E","Y"," ","P","."," ","P","R","A","T","T">>, s3))))

\* mutant of elder_prefix: no prefix
elder_prefix_none(s) == s

\* lines 330-331
elder_prefix(s) == IF s = <<"P","A","R","L","E","Y"," ","P","."," ","P","R","A","T","T">> THEN <<"E","L","D","E","R"," ">> \o s ELSE s

\* lines 334-342
honorific_unification(s) ==
  Let(replace(s, <<"P","R","O","F","E","S","S","O","R"," ">>, <<"E","L","D","E","R"," ">>), LAMBDA s1 :
  Let(replace(s1, <<"M","R","."," ">>, <<"E","L","D","E","R"," ">>), LAMBDA s2 :
  Let(replace(s2, <<"H","O","N","."," ">>, <<"E","L","D","E","R"," ">>), LAMBDA s3 :
  Let(replace(s3, <<"E","S","Q",".">>, <<"E","S","Q",".",",">>), LAMBDA s4 :
    IF Contains(s4, <<"E","S","Q",".",",">>)
    THEN Let(strip(replace(s4, <<"E","S","Q",".",",">>, <<>>)), LAMBDA t :
           strip(IF startswith(t, <<"E","L","D","E","R">>) THEN t ELSE <<"E","L","D","E","R"," ">> \o t))
    ELSE strip(s4)))))

normalize_speaker_name(s) ==
  Let(spacing_repair(s), LAMBDA s1 :
  Let(alias_table(s1), LAMBDA s2 :
  Let(elder_prefix(s2), LAMBDA s3 : honorific_unification(s3))))

-----------------------------------------------------------------------------
(* join_paragraphs: one iteration of the loop, the final flush, the join.  *)

\* r'(\w+)-\s+(\w+)'
hyphen_join_re == <<Many(WordChar, 1), Lit(<<"-">>), Ws1, Many(WordChar, 1)>>

\* re.sub(r'(\w+)-\s+(\w+)', r'\1\2', s), from position p on
RECURSIVE hyphen_join_from(_, _)
hyphen_join_from(s, p) ==
  Let({m \in p..Len(s) : Ends(s, m, hyphen_join_re, 1) # {}}, LAMBDA ms :
    IF ms = {} THEN SubSeq(s, p, Len(s))
    ELSE Let(SetMin(ms), LAMBDA m :
         Let(SetMax(Ends(s, m, hyphen_join_re, 1)), LAMBDA q :
         Let(SetMax(Ends(s, m, <<Many(WordChar, 1)>>, 1)), LAMBDA h :
         Let(SetMax(Ends(s, h + 1, <<Ws1>>, 1)), LAMBDA w :
           SubSeq(s, p, h - 1) \o SubSeq(s, w, q - 1) \o hyphen_join_from(s, q))))))

\* lines 434-435, 452-453, 462-463
para_text(cur) == Let(join(<<" ">>, cur), LAMBDA s : hyphen_join_from(s, 1))

SentenceEnd == {".", "!", "?", ":", ";"}

\* prev_line.rstrip().endswith(('.', '!', '?', ':', ';'))
ends_sentence(prev_line) ==
  LET t == rstrip(prev_line) IN t # <<>> /\ t[Len(t)] \in SentenceEnd

\* line and line[0].isupper() or line.startswith('"')
starts_new(line) == (line # <<>> /\ line[1] \in Upper) \/ startswith(line, <<"\"">>)

\* mutant of para_step: a blank line is one more line without text
para_step_blank_joins(st, raw) ==
  LET line == strip(raw) IN
    IF line = <<>> THEN st
    ELSE IF st.current # <<>>
         THEN IF /\ ends_sentence(st.current[Len(st.current)])
                 /\ starts_new(line)
                 /\ Len(st.current) > 2
              THEN [current |-> <<line>>,
                    paragraphs |-> Append(st.paragraphs, para_text(st.current))]
              ELSE [st EXCEPT !.current = Append(@, line)]
         ELSE [st EXCEPT !.current = Append(@, line)]

\* the body of the loop of lines 428-459 for one raw line; st is [current, paragraphs]
para_step(st, raw) ==
  LET line == strip(raw) IN
    IF line = <<>>
    THEN IF st.current # <<>>
         THEN [current |-> <<>>, paragraphs |-> Append(st.paragraphs, para_text(st.current))]
         ELSE st
    ELSE IF st.current # <<>>
         THEN IF /\ ends_sentence(st.current[Len(st.current)])
                 /\ starts_new(line)
                 /\ Len(st.current) > 2
              THEN [current |-> <<line>>,
                    paragraphs |-> Append(st.paragraphs, para_text(st.current))]
              ELSE [st EXCEPT !.current = Append(@, line)]
         ELSE [st EXCEPT !.current = Append(@, line)]

\* lines 461-464
para_flush(st) ==
  IF st.current # <<>> THEN Append(st.paragraphs, para_text(st.current)) ELSE st.paragraphs

NEWLINES == <<"\n", "\n">>

RECURSIVE join_paragraphs_loop(_, _, _)
join_paragraphs_loop(ls, n, st) ==
  IF n >= Len(ls) THEN st
  ELSE Let(para_step(st, At(ls, n)), LAMBDA st2 : join_paragraphs_loop(ls, n + 1, st2))

join_paragraphs(ls) ==
  Let(join_paragraphs_loop(ls, 0, [current |-> <<>>, paragraphs |-> <<>>]), LAMBDA st :
      join(NEWLINES, para_flush(st)))

-----------------------------------------------------------------------------
(* extract_metadata_from_block.  The location field is not modelled: no    *)
(* property below reads it.  The location lines are, because the date      *)
(* falls back on them.                                                     *)

RECURSIVE block_lines(_, _, _)
block_lines(ls, n, stop) ==
  IF n >= stop THEN <<>>
  ELSE IF strip(At(ls, n)) # <<>>
       THEN <<strip(At(ls, n))>> \o block_lines(ls, n + 1, stop)
       ELSE block_lines(ls, n + 1, stop)

\* lines 266-279 for one line that is not the reporter's; m holds what was collected
metadata_step(m, line) ==
  Let(date_match(line), LAMBDA d :
  Let(IF d # <<>> /\ m.date = <<>> THEN [m EXCEPT !.date = d] ELSE m, LAMBDA m1 :
    IF has_speaker_indicator(line)
    THEN [m1 EXCEPT !.speaker_parts = Append(@, line)]
    ELSE IF has_location_indicator(line)
    THEN [m1 EXCEPT !.location_parts = Append(@, line)]
    ELSE IF /\ m1.date = <<>>
            /\ isupper(line)
            /\ ~Contains(line, BEFORE)
            /\ ~is_running_header(line)
            /\ ~Contains(line, AMEN)
    THEN [m1 EXCEPT !.title_parts = Append(@, rstrip_chars(line, {"."}))]
    ELSE m1))

\* the loop of lines 260-279 from block line n on
RECURSIVE metadata_loop(_, _, _)
metadata_loop(block, n, m) ==
  IF n > Len(block) THEN m
  ELSE IF startswith(block[n], REPORTED_BY)
  THEN [m EXCEPT !.reporter =
          rstrip_chars(strip(replace(block[n], REPORTED_BY, <<>>)), {"."})]
  ELSE Let(metadata_step(m, block[n]), LAMBDA m2 : metadata_loop(block, n + 1, m2))

BlockLookahead == 5

extract_metadata_from_block(ls, start, end) ==
  Let(block_lines(ls, start, Min(end + BlockLookahead, Len(ls))), LAMBDA block :
  Let(metadata_loop(block, 1,
                    [title_parts |-> <<>>, speaker_parts |-> <<>>,
                     location_parts |-> <<>>, date |-> <<>>, reporter |-> <<>>]), LAMBDA m :
  Let(extract_speaker_name(join(<<" ">>, m.speaker_parts)), LAMBDA name :
    [title |-> join(<<" ">>, m.title_parts),
     speaker |-> IF name # <<>> THEN normalize_speaker_name(name) ELSE <<>>,
     date |-> IF m.date = <<>>
              THEN date_match(join(<<" ">>, m.location_parts \o m.speaker_parts))
              ELSE m.date,
     reporter |-> m.reporter])))

-----------------------------------------------------------------------------
(* find_all_discourses: the record of boundary k.                          *)

\* mutant of title_filter: once the content has started every line is kept
RECURSIVE title_filter_keep(_, _, _)
title_filter_keep(content_lines, title, started_content) ==
  IF content_lines = <<>> THEN <<>>
  ELSE IF ~isupper(strip(Head(content_lines))) \/ started_content
       THEN <<Head(content_lines)>> \o title_filter_keep(Tail(content_lines), title, TRUE)
       ELSE title_filter_keep(Tail(content_lines), title, FALSE)

\* lines 398-411: the filter of the content lines, started_content as a parameter
RECURSIVE title_filter(_, _, _)
title_filter(content_lines, title, started_content) ==
  IF content_lines = <<>> THEN <<>>
  ELSE LET l == Head(content_lines)
           line_stripped == strip(l)
       IN IF ~isupper(line_stripped) \/ started_content
          THEN (IF line_stripped \notin {title, title \o <<".">>} THEN <<l>> ELSE <<>>)
               \o title_filter(Tail(content_lines), title, TRUE)
          ELSE \* line 409: 'continue' when neither phrase is in the line; when one is,
               \* the loop body ends without an append: the line is dropped either way
               IF ~(Contains(line_stripped, REPORTED_BY) \/ Contains(line_stripped, DELIVERED))
               THEN title_filter(Tail(content_lines), title, FALSE)
               ELSE title_filter(Tail(content_lines), title, FALSE)

\* mutant of slice: the content runs to the end of the stream
slice_to_end(ls, from, to) == SubSeq(ls, from + 1, Len(ls))

\* lines[content_start:content_end]
slice(ls, from, to) == SubSeq(ls, from + 1, Min(to, Len(ls)))

\* lines 377-419 for boundary k (1-based) of bs; content_start, content_end and
\* content_lines are the locals of the iteration, kept for the properties
discourse_of(ls, bs, k) ==
  LET content_start == bs[k].title_end
      content_end == IF k + 1 <= Len(bs) THEN bs[k + 1].start ELSE Len(ls)
  IN Let(extract_metadata_from_block(ls, bs[k].start, bs[k].title_end), LAMBDA metadata :
     Let(slice(ls, content_start, content_end), LAMBDA sliced :
     Let(IF metadata.title # <<>> THEN title_filter(sliced, metadata.title, FALSE)
         ELSE sliced, LAMBDA content_lines :
       [metadata |-> metadata,
        content |-> join_paragraphs(content_lines),
        content_start |-> content_start,
        content_end |-> content_end,
        content_lines |-> content_lines])))

-----------------------------------------------------------------------------
(* The program as a state machine.  pc is                                  *)
(*   "clean"   main, cleaning the pages                                    *)
(*   "hyph"    fix_hyphenation, at the head of its loop                    *)
(*   "scan"    find_discourse_boundaries, at the head of the outer loop    *)
(*   "back"    in the backward walk                                        *)
(*   "fwd"     in the forward walk                                         *)
(*   "records" find_all_discourses, building the records                   *)
(*   "done"    find_all_discourses has returned                            *)
(*   "join", "joined"            join_paragraphs on its own                *)
(*   "extract", "spacing", "alias", "elder", "honorific", "named"          *)
(*             extract_speaker_name and normalize_speaker_name on their own*)

find_vars == <<i, j, lookback, start_idx, title_lines, last_boundary_end,
               boundaries, discourses>>
hyph_vars == <<fixed, fi>>
para_vars == <<current, paragraphs, pidx, content>>
speaker_vars == <<speaker_text, speaker>>
page_vars == <<pages, pno>>

\* the values of the variables of a part of the program that has not started
find_idle ==
  /\ i = 0 /\ j = 0 /\ lookback = 0 /\ start_idx = 0 /\ title_lines = <<>>
  /\ last_boundary_end = -1 /\ boundaries = <<>> /\ discourses = <<>>
hyph_idle == fixed = <<>> /\ fi = 0
para_idle == current = <<>> /\ paragraphs = <<>> /\ pidx = 0 /\ content = <<>>
speaker_idle == speaker_text = <<>> /\ speaker = <<>>
page_idle == pages = <<>> /\ pno = 0

-----------------------------------------------------------------------------
(* main, lines 527-536: clean_page_text page by page, then fix_hyphenation *)

CleanPage ==
  /\ pc = "clean"
  /\ pno < Len(pages)
  /\ lines' = lines \o clean_page_text(pages[pno + 1])
  /\ pno' = pno + 1
  /\ UNCHANGED <<pages, pc, hyph_vars, find_vars, para_vars, speaker_vars>>

CleanDone ==
  /\ pc = "clean"
  /\ pno >= Len(pages)
  /\ pc' = "hyph"
  /\ fixed' = <<>>
  /\ fi' = 0
  /\ UNCHANGED <<page_vars, lines, find_vars, para_vars, speaker_vars>>

-----------------------------------------------------------------------------
(* fix_hyphenation, lines 57-77                                            *)

HyphMerge ==
  /\ pc = "hyph"
  /\ fi < Len(lines)
  /\ hyph_merges(lines, fi)
  /\ fixed' = Append(fixed, hyph_merged(lines, fi))
  /\ fi' = fi + 2
  /\ UNCHANGED <<page_vars, lines, pc, find_vars, para_vars, speaker_vars>>

HyphKeep ==
  /\ pc = "hyph"
  /\ fi < Len(lines)
  /\ ~hyph_merges(lines, fi)
  /\ fixed' = Append(fixed, At(lines, fi))
  /\ fi' = fi + 1
  /\ UNCHANGED <<page_vars, lines, pc, find_vars, para_vars, speaker_vars>>

\* return fixed; in main, all_lines = fix_hyphenation(all_lines) and the call of
\* find_all_discourses, which starts find_discourse_boundaries (lines 84-87)
HyphDone ==
  /\ pc = "hyph"
  /\ fi >= Len(lines)
  /\ lines' = fixed
  /\ pc' = "scan"
  /\ i' = 0
  /\ last_boundary_end' = -1
  /\ boundaries' = <<>>
  /\ UNCHANGED <<page_vars, hyph_vars, j, lookback, start_idx, title_lines, discourses,
                 para_vars, speaker_vars>>

-----------------------------------------------------------------------------
(* find_discourse_boundaries, lines 84-208                                 *)

\* mutant of resume: the cursor is left where it was
resume_stay(ci, cj) == ci

\* mutant of resume: the scan goes on at the line after the candidate
resume_next(ci, cj) == ci + 1

\* line 206: i = j if j > i else i + 1
resume(ci, cj) == IF cj > ci THEN cj ELSE ci + 1

\* lines 164-172 and 188-192: the lookahead from cursor cj
VerifyWindow == 8

\* mutant of verified: any block with a line after it passes
verified_unchecked(ls, cj) == cj <= Len(ls)

verified(ls, cj) ==
  ~(\A k \in cj..(Min(cj + VerifyWindow, Len(ls)) - 1) : ~is_verification(strip(At(ls, k))))

GuardWindow == 3
in_guard(ci, last) == ci < last + GuardWindow

cur_line == strip(At(lines, i))

\* line 101
is_candidate_text(line) == isupper(line) /\ Len(line) >= 5

\* line 123
is_title_line(prev_line) ==
  isupper(prev_line) /\ Len(prev_line) > 3 /\ ~is_running_header(prev_line)

\* line 88 false: return boundaries (line 208), back in find_all_discourses
ScanEnd ==
  /\ pc = "scan"
  /\ i >= Len(lines)
  /\ pc' = "records"
  /\ UNCHANGED <<page_vars, lines, hyph_vars, find_vars, para_vars, speaker_vars>>

\* one iteration of the outer loop up to the backward walk, lines 88-115
ScanStep ==
  /\ pc = "scan"
  /\ i < Len(lines)
  /\ IF in_guard(i, last_boundary_end)                       \* lines 90-92
     THEN i' = i + 1 /\ UNCHANGED <<pc, title_lines, start_idx, lookback>>
     ELSE IF is_blank_or_amen(cur_line)                      \* lines 96-98
     THEN i' = i + 1 /\ UNCHANGED <<pc, title_lines, start_idx, lookback>>
     ELSE IF ~is_candidate_text(cur_line)                    \* lines 101-103
     THEN i' = i + 1 /\ UNCHANGED <<pc, title_lines, start_idx, lookback>>
     ELSE IF is_running_header(cur_line)                     \* lines 106-108
     THEN i' = i + 1 /\ UNCHANGED <<pc, title_lines, start_idx, lookback>>
     ELSE /\ title_lines' = <<>>                             \* lines 111-115
          /\ start_idx' = i
          /\ lookback' = i - 1
          /\ pc' = "back"
          /\ UNCHANGED i
  /\ UNCHANGED <<page_vars, lines, hyph_vars, j, last_boundary_end, boundaries,
                 discourses, para_vars, speaker_vars>>

prev_line == strip(At(lines, lookback))

\* one iteration of the backward walk, lines 116-130, or its end and line 133
BackStep ==
  /\ pc = "back"
  /\ IF lookback < 0                                         \* line 116 false
     THEN j' = i /\ pc' = "fwd" /\ UNCHANGED <<lookback, title_lines, start_idx>>
     ELSE IF is_blank_or_amen(prev_line)                     \* lines 119-121
     THEN lookback' = lookback - 1 /\ UNCHANGED <<j, pc, title_lines, start_idx>>
     ELSE IF is_title_line(prev_line)                        \* lines 123-128
     THEN /\ IF ~Contains(prev_line, AMEN)
             THEN title_lines' = <<prev_line>> \o title_lines /\ start_idx' = lookback
             ELSE UNCHANGED <<title_lines, start_idx>>
          /\ lookback' = lookback - 1
          /\ UNCHANGED <<j, pc>>
     ELSE j' = i /\ pc' = "fwd"                              \* lines 129-130
          /\ UNCHANGED <<lookback, title_lines, start_idx>>
  /\ UNCHANGED <<page_vars, lines, hyph_vars, i, last_boundary_end, boundaries,
                 discourses, para_vars, speaker_vars>>

curr_line == strip(At(lines, j))

SkipCap == 10
ForwardCap == 15

\* the forward loop is left without 'i = j': line 206, then the outer loop
LeaveForward(cj) ==
  /\ i' = resume(i, cj)
  /\ pc' = "scan"

\* line 147
adds_title_line(line) ==
  (\A n \in 1..Len(title_lines) : title_lines[n] # line) /\ ~Contains(line, AMEN)

\* lines 156-160
has_indicator(line) ==
  IF has_speaker_indicator(line) THEN TRUE ELSE has_location_indicator(line)

\* line 185: any(has_speaker_indicator(tl) for tl in title_lines)
any_speaker_indicator(tls) == ~(\A n \in 1..Len(tls) : ~has_speaker_indicator(tls[n]))

\* one iteration of the forward walk, lines 134-204, or its end
FwdStep ==
  /\ pc = "fwd"
  /\ IF j >= Len(lines)                                      \* line 134 false
     THEN /\ LeaveForward(j)
          /\ UNCHANGED <<j, title_lines, boundaries, last_boundary_end>>
     ELSE IF IF curr_line = <<>> THEN TRUE ELSE is_running_header(curr_line)
     THEN /\ j' = j + 1                                      \* lines 138-142
          /\ IF j + 1 - i > SkipCap THEN LeaveForward(j + 1) ELSE UNCHANGED <<i, pc>>
          /\ UNCHANGED <<title_lines, boundaries, last_boundary_end>>
     ELSE IF isupper(curr_line)
     THEN IF ~adds_title_line(curr_line) /\ Contains(curr_line, AMEN)
          THEN /\ j' = j + 1                                 \* lines 150-152
               /\ UNCHANGED <<i, pc, title_lines, boundaries, last_boundary_end>>
          ELSE /\ title_lines' = IF adds_title_line(curr_line)   \* lines 147-148, 153
                                 THEN Append(title_lines, curr_line) ELSE title_lines
               /\ j' = j + 1
               /\ IF /\ has_indicator(curr_line)             \* lines 156-182
                     /\ verified(lines, j + 1)
                     /\ Len(title_lines') > 0
                  THEN /\ boundaries' =
                            Append(boundaries, [start |-> start_idx, title_end |-> j + 1,
                                                title_lines |-> title_lines'])
                       /\ last_boundary_end' = j + 1
                       \* i = j; break; then line 206 with i = j
                       /\ i' = resume(j + 1, j + 1)
                       /\ pc' = "scan"
                  ELSE /\ UNCHANGED <<boundaries, last_boundary_end>>
                       /\ IF j + 1 - i > ForwardCap          \* lines 203-204
                          THEN LeaveForward(j + 1) ELSE UNCHANGED <<i, pc>>
     ELSE /\ IF /\ Len(title_lines) >= 1                     \* lines 183-200
                /\ any_speaker_indicator(title_lines)
                /\ verified(lines, j)
             THEN /\ boundaries' =
                       Append(boundaries, [start |-> start_idx, title_end |-> j,
                                           title_lines |-> title_lines])
                  /\ last_boundary_end' = j
             ELSE UNCHANGED <<boundaries, last_boundary_end>>
          /\ LeaveForward(j)
          /\ UNCHANGED <<j, title_lines>>
  /\ UNCHANGED <<page_vars, lines, hyph_vars, lookback, start_idx, discourses,
                 para_vars, speaker_vars>>

-----------------------------------------------------------------------------
(* find_all_discourses, lines 372-421                                      *)

\* one iteration of the loop over the boundaries
BuildRecord ==
  /\ pc = "records"
  /\ Len(discourses) < Len(boundaries)
  /\ discourses' = Append(discourses, discourse_of(lines, boundaries, Len(discourses) + 1))
  /\ UNCHANGED <<page_vars, lines, pc, hyph_vars, i, j, lookback, start_idx, title_lines,
                 last_boundary_end, boundaries, para_vars, speaker_vars>>

RecordsDone ==
  /\ pc = "records"
  /\ Len(discourses) >= Len(boundaries)
  /\ pc' = "done"
  /\ UNCHANGED <<page_vars, lines, hyph_vars, find_vars, para_vars, speaker_vars>>

-----------------------------------------------------------------------------
(* join_paragraphs on its own, lines 425-466                               *)

ParaLine ==
  /\ pc = "join"
  /\ pidx < Len(lines)
  /\ LET st == para_step([current |-> current, paragraphs |-> paragraphs], At(lines, pidx))
     IN current' = st.current /\ paragraphs' = st.paragraphs
  /\ pidx' = pidx + 1
  /\ UNCHANGED <<page_vars, lines, pc, hyph_vars, find_vars, content, speaker_vars>>

ParaReturn ==
  /\ pc = "join"
  /\ pidx >= Len(lines)
  /\ paragraphs' = para_flush([current |-> current, paragraphs |-> paragraphs])
  /\ content' = join(NEWLINES, paragraphs')
  /\ pc' = "joined"
  /\ UNCHANGED <<page_vars, lines, hyph_vars, find_vars, current, pidx, speaker_vars>>

-----------------------------------------------------------------------------
(* extract_speaker_name, then normalize_speaker_name rule by rule          *)
(* (lines 283-285, 301-342)                                                *)

ExtractSpeaker ==
  /\ pc = "extract"
  /\ speaker' = extract_speaker_name(speaker_text)
  /\ pc' = IF speaker' # <<>> THEN "spacing" ELSE "named"
  /\ UNCHANGED <<page_vars, lines, hyph_vars, find_vars, para_vars, speaker_text>>

SpacingRepair ==
  /\ pc = "spacing"
  /\ speaker' = spacing_repair(speaker)
  /\ pc' = "alias"
  /\ UNCHANGED <<page_vars, lines, hyph_vars, find_vars, para_vars, speaker_text>>

AliasTable ==
  /\ pc = "alias"
  /\ speaker' = alias_table(speaker)
  /\ pc' = "elder"
  /\ UNCHANGED <<page_vars, lines, hyph_vars, find_vars, para_vars, speaker_text>>

ElderPrefix ==
  /\ pc = "elder"
  /\ speaker' = elder_prefix(speaker)
  /\ pc' = "honorific"
  /\ UNCHANGED <<page_vars, lines, hyph_vars, find_vars, para_vars, speaker_text>>

HonorificUnification ==
  /\ pc = "honorific"
  /\ speaker' = honorific_unification(speaker)
  /\ pc' = "named"
  /\ UNCHANGED <<page_vars, lines, hyph_vars, find_vars, para_vars, speaker_text>>

-----------------------------------------------------------------------------
(* find_all_discourses on line streams.  The streams are every stream of   *)
(* up to MaxLen lines over Vocab, every stream that opens with Heading and *)
(* goes on with up to MaxTail lines over TailVocab, and every stream that  *)
(* opens with LegalHeading and goes on with up to MaxTail lines over Vocab.*)

Vocab == { <<"R","E","M","A","R","K","S">>, <<"B","Y"," ","E","L","D","E","R"," ","X",",">>, <<"R","E","P","O","R","T","E","D"," ","B","Y"," ","W",".">>, <<"t","e","x","t",".">> }

TailVocab == Vocab \cup { <<>>, <<"A","M","E","N",".">>, <<"N","O","."," ","1","2">> }

Heading == << <<"R","E","M","A","R","K","S">>, <<"B","Y"," ","E","L","D","E","R"," ","X",",">>, <<"D","E","L","I","V","E","R","E","D"," ","I","N"," ","X",".">>, <<"R","E","P","O","R","T","E","D"," ","B","Y"," ","W",".">> >>

LegalHeading == << <<"R","E","M","A","R","K","S">>, <<"B","Y"," ","E","L","D","E","R"," ","X",",">>, <<"D","E","L","I","V","E","R","E","D"," ","I","N"," ","X",".">>, <<"B","E","F","O","R","E"," ","T","H","E"," ","H","O","N","."," ","Z",","," ","J","U","D","G","E",".">> >>

MaxLen == 5
MaxTail == 4

Streams(vocab, n) == UNION {[1..m -> vocab] : m \in 0..n}

InitStreams ==
  Streams(Vocab, MaxLen)
    \cup {Heading \o t : t \in Streams(TailVocab, MaxTail)}
    \cup {LegalHeading \o t : t \in Streams(Vocab, MaxTail)}

Init ==
  /\ lines \in InitStreams
  /\ pc = "scan"
  /\ page_idle /\ hyph_idle /\ find_idle /\ para_idle /\ speaker_idle

NextBoundaries == ScanStep \/ BackStep \/ FwdStep \/ ScanEnd

Next == NextBoundaries \/ BuildRecord \/ RecordsDone

Spec == Init /\ [][Next]_vars

-----------------------------------------------------------------------------
(* fix_hyphenation on its own: every stream of up to MaxHyphLen lines over *)
(* HyphVocab.                                                              *)

HyphVocab == { <<"e","x","a","m","-">>, <<"p","l","e"," ","t","e","x","t">>, <<"a","m","-"," ">>, <<" ","o","p">>, <<"P","l","e">>, <<>> }

MaxHyphLen == 3

InitHyph ==
  /\ lines \in Streams(HyphVocab, MaxHyphLen)
  /\ pc = "hyph"
  /\ page_idle /\ hyph_idle /\ find_idle /\ para_idle /\ speaker_idle

NextHyph == HyphMerge \/ HyphKeep \/ HyphDone

SpecHyph == InitHyph /\ [][NextHyph]_vars

-----------------------------------------------------------------------------
(* join_paragraphs on its own: every stream of up to MaxParaLen lines over *)
(* ParaVocab.                                                              *)

ParaVocab == { <<"O","n","e",".">>, <<"t","w","o">>, <<"T","w","o">>, <<>>, <<" ">> }

MaxParaLen == 5

InitPara ==
  /\ lines \in Streams(ParaVocab, MaxParaLen)
  /\ pc = "join"
  /\ page_idle /\ hyph_idle /\ find_idle /\ para_idle /\ speaker_idle

NextPara == ParaLine \/ ParaReturn

SpecPara == InitPara /\ [][NextPara]_vars

-----------------------------------------------------------------------------
(* extract_speaker_name and normalize_speaker_name on their own: a phrase  *)
(* that names the speaker, with text before it and after it.               *)

Leads == { <<>>, <<"R","E","M","A","R","K","S"," ">>, <<"B","Y"," ","E","L","D","E","R"," ","O","."," ","H","Y","D","E",","," ","A","N","D"," ">>, <<"N","E","A","R","B","Y"," ","T","O","W","N",","," ">>,
           <<"P","R","E","S","I","D","E","N","T"," ","O","F"," ","T","H","E"," ","S","T","A","K","E",","," ">> }

Phrases == { <<"B","Y"," ","B","."," ","Y","O","U","N","G",",">>, <<"B","Y"," ","P","."," ","P","."," ","P","R","A","T","T",",">>, <<"B","Y"," ","B","."," ","Y"," ","O","U","N","G",",">>, <<"B","Y"," ","H","."," ","C","."," ","K","I","M","B","A","L","L",",">>,
             <<"B","Y"," ","M","R","."," ","P","."," ","P","."," ","P","R","A","T","T",",">>, <<"B","Y"," ","O","."," ","P","R","A","T","T"," ","E","S","Q",".",","," ","A","N","D">>, <<"S","P","O","K","E","N">> }

Trails == { <<>>, <<" ","D","E","L","I","V","E","R","E","D"," ","I","N"," ","X",".">>, <<" ","B","E","F","O","R","E"," ","T","H","E"," ","H","O","N","."," ","Z",",">>, <<" ","O","N"," ","S","U","N","D","A","Y">> }

SpeakerTexts == {a \o b \o c : a \in Leads, b \in Phrases, c \in Trails}

InitSpeaker ==
  /\ speaker_text \in SpeakerTexts
  /\ pc = "extract"
  /\ lines = <<>>
  /\ speaker = <<>>
  /\ page_idle /\ hyph_idle /\ find_idle /\ para_idle

NextSpeaker ==
  ExtractSpeaker \/ SpacingRepair \/ AliasTable \/ ElderPrefix \/ HonorificUnification

SpecSpeaker == InitSpeaker /\ [][NextSpeaker]_vars

-----------------------------------------------------------------------------
(* main: clean_page_text page by page, fix_hyphenation, find_all_discourses*)
(* on the corpora of the end-to-end scenario: the title block, a body      *)
(* paragraph, a blank line and a body paragraph, cut into three pages, the *)
(* pages with or without a page number at their head.                      *)

TitleBlock ==
  << <<"R","E","M","A","R","K","S">>, <<"B","Y"," ","P","R","E","S","I","D","E","N","T"," ","B","R","I","G","H","A","M"," ","Y","O","U","N","G",",">>,
     <<"D","E","L","I","V","E","R","E","D"," ","I","N"," ","T","H","E"," ","T","A","B","E","R","N","A","C","L","E",","," ","G","R","E","A","T"," ","S","A","L","T"," ","L","A","K","E"," ","C","I","T","Y",","," ","J","A","N","U","A","R","Y"," ","1","S","T",","," ","1","8","6","0",".">>,
     <<"R","E","P","O","R","T","E","D"," ","B","Y"," ","G","."," ","D","."," ","W","A","T","T",".">> >>

Bodies == { << <<"F","i","r","s","t"," ","b","o","d","y"," ","p","a","r","a","g","r","a","p","h",".">> >>,
            << <<"S","e","c","o","n","d"," ","e","x","a","m","-">>, <<"p","l","e"," ","t","e","x","t",".">> >>,
            << <<"O","n","e",".">>, <<"T","w","o",".">>, <<"T","h","r","e","e",".">> >> }

PageHeads == { <<>>, << <<"1","2">> >> }

\* text cut into three pages after c1 and after c2 lines, each under the head
ThreePages(text, c1, c2, head) ==
  << head \o SubSeq(text, 1, c1),
     head \o SubSeq(text, c1 + 1, c2),
     head \o SubSeq(text, c2 + 1, Len(text)) >>

ScenarioTexts == {TitleBlock \o p1 \o << <<>> >> \o p2 : p1 \in Bodies, p2 \in Bodies}

\* the cuts c1 <= c2 of a text
Cuts(text) == {c \in (0..Len(text)) \X (0..Len(text)) : c[1] <= c[2]}

Scenario ==
  UNION {{ThreePages(text, c[1], c[2], head) : c \in Cuts(text), head \in PageHeads} :
         text \in ScenarioTexts}

InitMain ==
  /\ pages \in Scenario
  /\ pno = 0
  /\ lines = <<>>
  /\ pc = "clean"
  /\ hyph_idle /\ find_idle /\ para_idle /\ speaker_idle

NextMain == CleanPage \/ CleanDone \/ HyphMerge \/ HyphKeep \/ HyphDone \/ Next

SpecMain == InitMain /\ [][NextMain]_vars

-----------------------------------------------------------------------------
(* find_discourse_boundaries on long walks: two lines of text, a candidate *)
(* line, two runs of up to MaxRun equal lines each, and a closing that is  *)
(* empty or names a speaker and a reporter.                                *)

WalkLead == << <<"t","e","x","t",".">>, <<"t","e","x","t",".">>, <<"R","E","M","A","R","K","S">> >>

WalkKinds == { <<"R","E","M","A","R","K","S">>, <<"A","M","E","N",".">>, <<"S","A","Y"," ","A","M","E","N">>, <<>>, <<"N","O","."," ","1","2">> }

WalkClosings == { <<>>, << <<"B","Y"," ","E","L","D","E","R"," ","X",",">>, <<"R","E","P","O","R","T","E","D"," ","B","Y"," ","W",".">> >> }

MaxRun == 9

Repeat(line, n) == [k \in 1..n |-> line]

WalkStreams ==
  {WalkLead \o Repeat(r[1], r[2]) \o Repeat(r[3], r[4]) \o r[5] :
     r \in WalkKinds \X (0..MaxRun) \X WalkKinds \X (0..MaxRun) \X WalkClosings}

InitWalk ==
  /\ lines \in WalkStreams
  /\ pc = "scan"
  /\ page_idle /\ hyph_idle /\ find_idle /\ para_idle /\ speaker_idle

SpecWalk == InitWalk /\ [][NextBoundaries]_vars

(* The same walks under weak fairness of the loop: the interpreter always  *)
(* takes the next step of a loop that has one to take.                     *)

SpecWalkFair == SpecWalk /\ WF_vars(NextBoundaries)

-----------------------------------------------------------------------------
(* find_all_discourses on headings whose reporter line comes late: a title *)
(* of two lines, a speaker line, up to MaxGap equal lines, and a line that *)
(* holds 'REPORTED BY'.                                                    *)

ReporterLead == << <<"R","E","M","A","R","K","S">>, <<"A"," ","S","E","R","M","O","N">>, <<"B","Y"," ","E","L","D","E","R"," ","X",",">> >>

GapKinds == { <<"t","e","x","t",".">>, <<>> }

ReporterLines == { <<"R","E","P","O","R","T","E","D"," ","B","Y"," ","W",".">>, <<" ","R","E","P","O","R","T","E","D"," ","B","Y"," ","W","."," ">>, <<"A","S"," ","R","E","P","O","R","T","E","D"," ","B","Y"," ","W",".">>,
                   <<"R","E","P","O","R","T","E","D"," ","B","Y">>, <<"R","E","P","O","R","T","E","D"," ","B","Y",".">> }

MaxGap == 8

ReporterStreams ==
  {ReporterLead \o Repeat(r[1], r[2]) \o <<r[3]>> :
     r \in GapKinds \X (0..MaxGap) \X ReporterLines}

InitReporter ==
  /\ lines \in ReporterStreams
  /\ pc = "scan"
  /\ page_idle /\ hyph_idle /\ find_idle /\ para_idle /\ speaker_idle

SpecReporter == InitReporter /\ [][Next]_vars

-----------------------------------------------------------------------------
(* Properties of find_discourse_boundaries and find_all_discourses (Spec). *)

\* C1: for every pair of consecutive emitted boundaries k and k+1,
\* boundary[k].title_end <= boundary[k+1].start, and the start indices are strictly
\* increasing.
C1_NonOverlap ==
  \A k \in 1..(Len(boundaries) - 1) :
    /\ boundaries[k].title_end <= boundaries[k + 1].start
    /\ boundaries[k].start < boundaries[k + 1].start

\* some line at index k, te <= k < te + 8, holds 'REPORTED BY', or 'BEFORE THE HON.'
\* and 'JUDGE'
HasVerificationLine(ls, te) ==
  \E k \in te..(te + 7) :
    /\ k < Len(ls)
    /\ \/ Contains(At(ls, k), <<"R","E","P","O","R","T","E","D"," ","B","Y">>)
       \/ Contains(At(ls, k), <<"B","E","F","O","R","E"," ","T","H","E"," ","H","O","N",".">>) /\ Contains(At(ls, k), <<"J","U","D","G","E">>)

\* C2: a boundary is emitted only if a line within the 8 lines from its title_end on
\* holds 'REPORTED BY', or 'BEFORE THE HON.' and 'JUDGE'; the records are those of
\* the emitted boundaries, so that a block without such a line leaves no boundary and
\* no record.
C2_VerificationNecessity ==
  /\ \A n \in 1..Len(boundaries) : HasVerificationLine(lines, boundaries[n].title_end)
  /\ Len(discourses) <= Len(boundaries)
  /\ \A n \in 1..Len(discourses) :
       /\ discourses[n].content_start = boundaries[n].title_end
       /\ HasVerificationLine(lines, discourses[n].content_start)

\* a boundary was emitted on a verification line further down than its title_end
C2_Witness ==
  /\ pc = "done"
  /\ Len(discourses) >= 1
  /\ ~Contains(At(lines, boundaries[1].title_end), <<"R","E","P","O","R","T","E","D"," ","B","Y">>)
  /\ ~Contains(At(lines, boundaries[1].title_end), <<"J","U","D","G","E">>)

RECURSIVE IsSubsequence(_, _)
IsSubsequence(a, b) ==
  IF a = <<>> THEN TRUE
  ELSE IF b = <<>> THEN FALSE
  ELSE IF Head(a) = Head(b) THEN IsSubsequence(Tail(a), Tail(b))
  ELSE IsSubsequence(a, Tail(b))

\* the index range [boundary[k].title_end, boundary[k+1].start), or to the end of the
\* stream for the last boundary
SpanFrom(k) == boundaries[k].title_end
SpanTo(k) == IF k < Len(boundaries) THEN boundaries[k + 1].start ELSE Len(lines)
SpanLines(k) == SubSeq(lines, SpanFrom(k) + 1, SpanTo(k))
SpanIndices(k) == {n \in 0..(Len(lines) - 1) : SpanFrom(k) <= n /\ n < SpanTo(k)}

\* C3: one record per boundary, in the order of the boundaries; the lines the content
\* of record k is built from are lines of [boundary[k].title_end, boundary[k+1].start),
\* or of [boundary[k].title_end, end of stream) for the last record, in their order,
\* all of them when the block has no title; no line is in the range of two records.
C3_ContentSpans ==
  pc = "done" =>
    /\ Len(discourses) = Len(boundaries)
    /\ \A k \in 1..Len(discourses) :
         /\ discourses[k].content_start = SpanFrom(k)
         /\ discourses[k].content_end = SpanTo(k)
         /\ IsSubsequence(discourses[k].content_lines, SpanLines(k))
         /\ discourses[k].metadata.title = <<>> => discourses[k].content_lines = SpanLines(k)
         /\ discourses[k].content = join_paragraphs(discourses[k].content_lines)
    /\ \A k1 \in 1..Len(discourses) : \A k2 \in 1..Len(discourses) :
         k1 # k2 => SpanIndices(k1) \cap SpanIndices(k2) = {}

\* two records, the first with content between the two title blocks
C3_Witness ==
  /\ pc = "done"
  /\ Len(discourses) = 2
  /\ discourses[1].content_lines # <<>>
  /\ SpanTo(1) < Len(lines)

\* a forward walk ends without a boundary
FailedWalk == pc = "fwd" /\ pc' = "scan" /\ boundaries' = boundaries

\* C8 as stated: after a candidate at i that is not verified the scan goes on at i + 1
C8_ResumeNextLine == [][FailedWalk => i' = i + 1]_vars

\* C8: after a candidate at i that is not verified the scan goes on at the line at
\* which the forward walk stopped, past every line the walk examined, and at least
\* one line further than i.
C8_ResumeAfterWalk == [][FailedWalk => i' = j' /\ i' > i]_vars

\* five title lines: the candidate is line 2, the walk runs to the end of the stream
C8_Witness ==
  /\ lines = [n \in 1..5 |-> <<"R","E","M","A","R","K","S">>]
  /\ pc = "scan"
  /\ boundaries = <<>>
  /\ j = 5
  /\ i = 5

\* the uppercase lines at the head of a content span, and the span from its first
\* line that is not uppercase on
RECURSIVE UpperHead(_)
UpperHead(span) ==
  IF span = <<>> THEN <<>>
  ELSE IF ~isupper(strip(Head(span))) THEN <<>>
  ELSE <<Head(span)>> \o UpperHead(Tail(span))

FromFirstNonUpper(span) == SubSeq(span, Len(UpperHead(span)) + 1, Len(span))

IsPrefix(a, b) == Len(a) <= Len(b) /\ SubSeq(b, 1, Len(a)) = a
IsSuffix(a, b) == Len(a) <= Len(b) /\ SubSeq(b, Len(b) - Len(a) + 1, Len(b)) = a

NamesReporterOrDelivery(line) ==
  Contains(line, <<"R","E","P","O","R","T","E","D"," ","B","Y">>) \/ Contains(line, <<"D","E","L","I","V","E","R","E","D">>)

\* C9 as stated: in a record with a title, the uppercase lines at the head of the
\* content span that hold 'REPORTED BY' or 'DELIVERED' are kept as they are, first in
\* the content lines, and the other uppercase lines there are dropped.
C9_HeadLinesKept ==
  pc = "done" =>
    \A k \in 1..Len(discourses) :
      discourses[k].metadata.title # <<>> =>
        LET kept == SelectSeq(UpperHead(SpanLines(k)), NamesReporterOrDelivery)
            rest == SubSeq(discourses[k].content_lines, Len(kept) + 1,
                           Len(discourses[k].content_lines))
        IN /\ IsPrefix(kept, discourses[k].content_lines)
           /\ IsSubsequence(rest, FromFirstNonUpper(SpanLines(k)))

\* C10 as stated: every line of the content span from its first line that is not
\* uppercase on is among the content lines, as it is and in its order.
C10_AllKeptAfterStart ==
  pc = "done" =>
    \A k \in 1..Len(discourses) :
      IsSuffix(FromFirstNonUpper(SpanLines(k)), discourses[k].content_lines)

\* the line is not the title, with or without a full stop after it
NotTitleEcho(title, line) ==
  title = <<>> \/ strip(line) \notin {title, title \o <<".">>}

\* C10: every line of the content span from its first line that is not uppercase on,
\* uppercase or not, is among the content lines, as it is and in its order, but for
\* the lines that, trimmed, are the title of the record or the title and a full stop:
\* those are dropped wherever they stand.  The content is join_paragraphs of these
\* lines.
C10_KeptAfterStart ==
  pc = "done" =>
    \A k \in 1..Len(discourses) :
      LET title == discourses[k].metadata.title
          keep(line) == NotTitleEcho(title, line)
      IN /\ IsSuffix(SelectSeq(FromFirstNonUpper(SpanLines(k)), keep),
                     discourses[k].content_lines)
         /\ discourses[k].content = join_paragraphs(discourses[k].content_lines)

\* after the first body line an uppercase line is kept and an echo of the title is not
C10_Witness ==
  /\ pc = "done"
  /\ lines = Heading \o << <<"t","e","x","t",".">>, <<"R","E","M","A","R","K","S">>, <<"B","Y"," ","E","L","D","E","R"," ","X",",">> >>
  /\ Len(discourses) = 1
  /\ discourses[1].metadata.title = <<"R","E","M","A","R","K","S">>
  /\ discourses[1].content_lines = << <<"t","e","x","t",".">>, <<"B","Y"," ","E","L","D","E","R"," ","X",",">> >>

-----------------------------------------------------------------------------
(* Properties of join_paragraphs (SpecPara).                               *)

\* the indices of the lines that are not blank, in their order
RECURSIVE NonBlankFrom(_, _)
NonBlankFrom(ls, n) ==
  IF n > Len(ls) THEN <<>>
  ELSE (IF strip(ls[n]) # <<>> THEN <<n>> ELSE <<>>) \o NonBlankFrom(ls, n + 1)

\* the paragraphs of the lines at idx[g..] when the paragraphs end after the lines
\* at idx[c], c in cuts; cur holds the lines of the paragraph that is open
RECURSIVE Segments(_, _, _, _, _)
Segments(ls, idx, cuts, g, cur) ==
  IF g > Len(idx) THEN (IF cur = <<>> THEN <<>> ELSE <<para_text(cur)>>)
  ELSE IF g \in cuts \/ g = Len(idx)
       THEN <<para_text(Append(cur, strip(ls[idx[g]])))>> \o Segments(ls, idx, cuts, g + 1, <<>>)
       ELSE Segments(ls, idx, cuts, g + 1, Append(cur, strip(ls[idx[g]])))

\* the places where a blank line stands between two lines that are not blank
BlankSeparated(idx) == {g \in 1..(Len(idx) - 1) : idx[g + 1] > idx[g] + 1}

\* C5: two lines that are not blank and have a blank line between them are in two
\* different paragraphs of the output: the paragraphs are the lines that are not
\* blank, in their order, cut at every such place (and at the other places the soft
\* break picks), whatever the punctuation, the first characters and the number of
\* the lines collected.
C5_HardBreak ==
  pc = "joined" =>
    LET idx == NonBlankFrom(lines, 1)
    IN \E cuts \in SUBSET (1..(Len(idx) - 1)) :
         /\ BlankSeparated(idx) \subseteq cuts
         /\ paragraphs = Segments(lines, idx, cuts, 1, <<>>)

\* a blank line after a line without final punctuation, before a lowercase line
C5_Witness ==
  /\ pc = "joined"
  /\ lines = << <<"t","w","o">>, <<>>, <<"t","w","o">> >>
  /\ paragraphs = << <<"t","w","o">>, <<"t","w","o">> >>

-----------------------------------------------------------------------------
(* Properties of fix_hyphenation (SpecHyph).                               *)

\* the line ends with a word character and a hyphen, spaces after them or not
EndsWithHyphen(line) ==
  LET t == rstrip(line)
  IN Len(t) >= 2 /\ t[Len(t)] = "-" /\ t[Len(t) - 1] \in WordChar

WithoutHyphen(line) == SubSeq(rstrip(line), 1, Len(rstrip(line)) - 1)

\* the line after the cursor starts, trimmed, with a lowercase letter
NextStartsLower(ls, n) ==
  /\ n + 1 < Len(ls)
  /\ strip(At(ls, n + 1)) # <<>>
  /\ strip(At(ls, n + 1))[1] \in Lower

\* C6: with the cursor at a line that ends with a word character and a hyphen, before
\* a line that starts with a lowercase letter, the output gets one line, the first
\* without its hyphen and then the trimmed second, and the cursor moves by two; any
\* other line is output as it is and the cursor moves by one; 'exam-' and 'ple text'
\* give the one line 'example text'.
C6_HyphenationRepair ==
  [][/\ (pc = "hyph" /\ fi < Len(lines)) =>
          IF EndsWithHyphen(At(lines, fi)) /\ NextStartsLower(lines, fi)
          THEN /\ fixed' = Append(fixed, WithoutHyphen(At(lines, fi)) \o strip(At(lines, fi + 1)))
               /\ fi' = fi + 2
          ELSE /\ fixed' = Append(fixed, At(lines, fi))
               /\ fi' = fi + 1
     /\ (pc = "hyph" /\ fi >= Len(lines) /\ lines = << <<"e","x","a","m","-">>, <<"p","l","e"," ","t","e","x","t">> >>) =>
          lines' = << <<"e","x","a","m","p","l","e"," ","t","e","x","t">> >>]_vars

\* 'exam-' and 'ple text' have been merged
C6_Witness ==
  /\ pc = "hyph"
  /\ lines = << <<"e","x","a","m","-">>, <<"p","l","e"," ","t","e","x","t">> >>
  /\ fixed = << <<"e","x","a","m","p","l","e"," ","t","e","x","t">> >>
  /\ fi = 2

-----------------------------------------------------------------------------
(* Properties of extract_speaker_name and normalize_speaker_name           *)
(* (SpecSpeaker).                                                          *)

\* the rules of normalize_speaker_name in the order of C7, then the end
RuleOrder == <<"spacing", "alias", "elder", "honorific", "named">>

InRuleOrder ==
  \A n \in 1..(Len(RuleOrder) - 1) : pc = RuleOrder[n] => pc' = RuleOrder[n + 1]

\* C7 as stated: a speaker text that holds 'BY B. YOUNG,' gives 'BRIGHAM YOUNG' and one
\* that holds 'BY P. P. PRATT,' gives 'ELDER PARLEY P. PRATT'.
C7_AnyTextWithPhrase ==
  pc = "named" =>
    /\ Contains(speaker_text, <<"B","Y"," ","B","."," ","Y","O","U","N","G",",">>) => speaker = <<"B","R","I","G","H","A","M"," ","Y","O","U","N","G">>
    /\ Contains(speaker_text, <<"B","Y"," ","P","."," ","P","."," ","P","R","A","T","T",",">>) => speaker = <<"E","L","D","E","R"," ","P","A","R","L","E","Y"," ","P","."," ","P","R","A","T","T">>

\* the phrase stands at the first 'BY' of the text and the text names none of the
\* honorifics of the capture patterns
LeadsWith(text, phrase) ==
  /\ Find(text, phrase, 1) # 0
  /\ Find(text, phrase, 1) = Find(text, <<"B","Y">>, 1)
  /\ \A h \in { <<"P","R","E","S","I","D","E","N","T">>, <<"E","L","D","E","R">>, <<"H","O","N",".">>, <<"E","S","Q",".">>, <<"M","R",".">>, <<"P","R","O","F","E","S","S","O","R">> } :
       ~Contains(text, h)

\* C7: a speaker text in which 'BY B. YOUNG,' stands at the first 'BY', and which
\* names no honorific (PRESIDENT, ELDER, HON., ESQ., MR., PROFESSOR), gives
\* 'BRIGHAM YOUNG'; one in which 'BY P. P. PRATT,' stands so gives
\* 'ELDER PARLEY P. PRATT'.  The rules are applied in the order spacing repair, alias
\* table, 'ELDER ' prefix, honorific unification.
C7_SpeakerNormalization ==
  /\ [](pc = "named" =>
          /\ LeadsWith(speaker_text, <<"B","Y"," ","B","."," ","Y","O","U","N","G",",">>) => speaker = <<"B","R","I","G","H","A","M"," ","Y","O","U","N","G">>
          /\ LeadsWith(speaker_text, <<"B","Y"," ","P","."," ","P","."," ","P","R","A","T","T",",">>) => speaker = <<"E","L","D","E","R"," ","P","A","R","L","E","Y"," ","P","."," ","P","R","A","T","T">>)
  /\ [][InRuleOrder]_vars

\* 'BY P. P. PRATT,' after a title word, before the place: all four rules have run
C7_Witness ==
  /\ pc = "named"
  /\ speaker_text = <<"R","E","M","A","R","K","S"," ","B","Y"," ","P","."," ","P","."," ","P","R","A","T","T",","," ","D","E","L","I","V","E","R","E","D"," ","I","N"," ","X",".">>
  /\ speaker = <<"E","L","D","E","R"," ","P","A","R","L","E","Y"," ","P","."," ","P","R","A","T","T">>

-----------------------------------------------------------------------------
(* Properties of main (SpecMain).                                          *)

\* the number of the paragraphs of a content: they are joined with two newlines
ParagraphCount(text) ==
  IF text = <<>> THEN 0
  ELSE 1 + Cardinality({p \in 1..Len(text) : HasAt(text, p, NEWLINES)})

\* C4: on a corpus of the scenario (the title block, two body paragraphs with a blank
\* line between them, on three pages) the pipeline gives one record, and the content
\* of the record has two paragraphs.
C4_EndToEnd ==
  (pc = "done" /\ pages \in Scenario) =>
    /\ Len(discourses) = 1
    /\ ParagraphCount(discourses[1].content) = 2


-----------------------------------------------------------------------------
\* the forward walk ends: it hands the cursor back to the scan
WalkEnds == pc = "fwd" /\ pc' = "scan"

\* C11: the forward walk from a candidate at index i examines at most ForwardCap
\* lines: when the walk ends the cursor j is at most ForwardCap lines past i, and a
\* boundary it emits has its title_end at most ForwardCap lines past i, whatever
\* uppercase, AMEN, blank and running-header lines follow the candidate.
C11_ForwardCap ==
  [][WalkEnds =>
       /\ j' - i <= ForwardCap
       /\ Len(boundaries') > Len(boundaries) =>
            boundaries'[Len(boundaries')].title_end - i <= ForwardCap]_vars

-----------------------------------------------------------------------------
\* an iteration of the forward walk adds one to j or leaves the walk
FwdAdvances == pc = "fwd" => (j' = j + 1 /\ pc' \in {"fwd", "scan"}) \/ (j' = j /\ pc' = "scan")

\* an iteration of the backward walk takes one from lookback or leaves the walk
BackAdvances == pc = "back" => (lookback' = lookback - 1 /\ pc' = "back") \/ pc' = "fwd"

\* the outer cursor is not touched inside an outer iteration and is larger at the
\* end of it; after an emitted boundary it is at the title_end or past it
OuterAdvances ==
  /\ pc' \in {"back", "fwd", "records"} => i' = i
  /\ pc' = "scan" => i' > i
  /\ Len(boundaries') > Len(boundaries) =>
       /\ pc = "fwd" /\ pc' = "scan"
       /\ i' >= boundaries'[Len(boundaries')].title_end

\* C12: find_discourse_boundaries terminates on every stream: every iteration of the
\* forward walk adds one to j or ends the walk, every iteration of the backward walk
\* takes one from lookback or ends the walk, the outer cursor i is larger after every
\* outer iteration, also after an emitted boundary, and the scan reaches the end of
\* the stream and returns the boundaries.
C12_Terminates ==
  /\ [][FwdAdvances /\ BackAdvances /\ OuterAdvances]_vars
  /\ <>(pc = "records" /\ i >= Len(lines))

\* a scan that walked backward, walked forward over AMEN lines past the cap, emitted
\* a boundary and returned
C12_Witness ==
  /\ pc = "records"
  /\ lines = WalkLead \o Repeat(<<"A","M","E","N",".">>, 9) \o Repeat(<<"R","E","M","A","R","K","S">>, 9)
                \o << <<"B","Y"," ","E","L","D","E","R"," ","X",",">>, <<"R","E","P","O","R","T","E","D"," ","B","Y"," ","W",".">> >>
  /\ Len(boundaries) = 1
  /\ i >= Len(lines)

-----------------------------------------------------------------------------
\* some line at index k, te <= k < te + VerifyWindow, holds 'REPORTED BY'
VerifiedByReporter(ls, te) ==
  \E k \in te..(te + VerifyWindow - 1) : k < Len(ls) /\ Contains(At(ls, k), <<"R","E","P","O","R","T","E","D"," ","B","Y">>)

\* C13: every record whose boundary was verified by a line holding 'REPORTED BY' has
\* a reporter that is not empty.
C13_ReporterFound ==
  pc = "done" =>
    \A k \in 1..Len(discourses) :
      VerifiedByReporter(lines, boundaries[k].title_end) =>
        discourses[k].metadata.reporter # <<>>
====
